---------------------------- MODULE Spec2Model ----------------------------
(***************************************************************************)
(* Loan creation (the NewLoan page: form, schedule preview, submission),   *)
(* the status resolvers, the recording of payments (the LoanDetail page)   *)
(* and the date of the loan report of fintech-pocket.                      *)
(*                                                                         *)
(* Money is counted in whole cents.  A JavaScript number is a record       *)
(* [nan, v]: NaN, or the integer number of cents v.  A calendar date       *)
(* string "YYYY-MM-DD" is the triple <<y, m, d>>; a Date object is an      *)
(* instant, counted in hours since 1970-01-01T00:00Z.                      *)
(***************************************************************************)
EXTENDS Integers, Sequences, FiniteSets

(***************************************************************************)
(* Bounds of the exploration.                                              *)
(***************************************************************************)
MaxAmount == 7
MaxCount == 6
MaxLoans == 1
MaxInstallments == 2
MaxPaid == 2
MaxTicks == 3
MaxPayments == 2

(***************************************************************************)
(* JavaScript numbers.                                                     *)
(***************************************************************************)
NaN == [nan |-> TRUE, v |-> 0]
Num(c) == [nan |-> FALSE, v |-> c]
isNaN(x) == x.nan

\* x <= k, x < y, x > k for numbers: every comparison with NaN is false
LeqNum(x, y) == ~x.nan /\ ~y.nan /\ x.v <= y.v
LessNum(x, y) == ~x.nan /\ ~y.nan /\ x.v < y.v

\* the text of an <input type="number">: empty, or a decimal with two places
EmptyText == [empty |-> TRUE, cents |-> 0]
DecimalText(c) == [empty |-> FALSE, cents |-> c]

\* parseFloat("") is NaN; parseFloat("0.06") is 0.06
parseFloat(text) == IF text.empty THEN NaN ELSE Num(text.cents)

(***************************************************************************)
(* The calendar of the JavaScript Date: day number <-> (year, month, day). *)
(***************************************************************************)
DaysFromCivil(date) ==
    LET y == IF date[2] <= 2 THEN date[1] - 1 ELSE date[1]
        era == y \div 400
        yoe == y - era * 400
        mp == IF date[2] > 2 THEN date[2] - 3 ELSE date[2] + 9
        doy == (153 * mp + 2) \div 5 + date[3] - 1
        doe == yoe * 365 + yoe \div 4 - yoe \div 100 + doy
    IN era * 146097 + doe - 719468

CivilFromDays(n) ==
    LET z == n + 719468
        era == z \div 146097
        doe == z - era * 146097
        yoe == (doe - doe \div 1460 + doe \div 36524 - doe \div 146096) \div 365
        doy == doe - (365 * yoe + yoe \div 4 - yoe \div 100)
        mp == (5 * doy + 2) \div 153
        d == doy - (153 * mp + 2) \div 5 + 1
        m == IF mp < 10 THEN mp + 3 ELSE mp - 9
        y == yoe + era * 400 + (IF m <= 2 THEN 1 ELSE 0)
    IN <<y, m, d>>

\* "a" < "b" on zero-padded YYYY-MM-DD strings: lexicographic order
DateStrLess(a, b) ==
    \/ a[1] < b[1]
    \/ a[1] = b[1] /\ a[2] < b[2]
    \/ a[1] = b[1] /\ a[2] = b[2] /\ a[3] < b[3]

(***************************************************************************)
(* The time zone of the process the page runs in.                          *)
(***************************************************************************)
TimeZones == {"UTC", "America/Lima", "America/New_York", "Europe/Madrid"}

\* standard offset from UTC, hours
StdOffset(zone) ==
    CASE zone = "UTC" -> 0
      [] zone = "America/Lima" -> -5
      [] zone = "America/New_York" -> -5
      [] zone = "Europe/Madrid" -> 1

\* the instants (hours since the epoch) at which summer time is in force:
\* New York 2024-03-10T07Z .. 2024-11-03T06Z, Madrid 2024-03-31T01Z ..
\* 2024-10-27T01Z
InDST(zone, t) ==
    CASE zone = "America/New_York" ->
            /\ t >= DaysFromCivil(<<2024, 3, 10>>) * 24 + 7
            /\ t < DaysFromCivil(<<2024, 11, 3>>) * 24 + 6
      [] zone = "Europe/Madrid" ->
            /\ t >= DaysFromCivil(<<2024, 3, 31>>) * 24 + 1
            /\ t < DaysFromCivil(<<2024, 10, 27>>) * 24 + 1
      [] OTHER -> FALSE

\* LocalTime(t): the local wall clock, in hours, of the instant t
LocalTime(zone, t) == t + StdOffset(zone) + (IF InDST(zone, t) THEN 1 ELSE 0)

\* UTC(l): the instant of the local wall clock l.  A wall clock that occurs
\* twice is the earlier instant, one that is skipped is read with the offset
\* in force before the transition.
UTCOfLocal(zone, l) ==
    LET summer == l - StdOffset(zone) - 1
        winter == l - StdOffset(zone)
    IN IF InDST(zone, summer) THEN summer ELSE winter

\* getFullYear / getMonth / getDate of an instant
LocalDate(zone, t) == CivilFromDays(LocalTime(zone, t) \div 24)


(***************************************************************************)
(* date-fns.  addDays sets the local day of the month (setDate), keeping   *)
(* the local time of day; addWeeks adds 7 days per week.                   *)
(***************************************************************************)
addDays(zone, t, amount) ==
    IF amount = 0 THEN t ELSE UTCOfLocal(zone, LocalTime(zone, t) + 24 * amount)

addWeeks(zone, t, amount) == addDays(zone, t, amount * 7)

(***************************************************************************)
(* The NewLoan page.  The repository holds two revisions of it: part_002   *)
(* parses the start date as local noon, NewLoan.tsx hands the date string  *)
(* to the Date constructor.                                                *)
(***************************************************************************)
Revisions == {"part_002", "NewLoan.tsx"}

\* part_002: new Date(year, month - 1, day), then setHours(12, 0, 0, 0)
\* NewLoan.tsx: new Date("YYYY-MM-DD"), which is midnight UTC of that day
parseStartDate(zone, rev, dateStr) ==
    IF rev = "part_002"
    THEN LET midnight == UTCOfLocal(zone, DaysFromCivil(dateStr) * 24)
         IN UTCOfLocal(zone, (LocalTime(zone, midnight) \div 24) * 24 + 12)
    ELSE DaysFromCivil(dateStr) * 24

\* formatDateLocal (part_002) and format(date, "yyyy-MM-dd") (NewLoan.tsx):
\* the local year, month and day, zero-padded
formatDateLocal(zone, t) == LocalDate(zone, t)

\* How the binary floating-point quotient (total / n) * 100 falls when the
\* exact quotient is a whole number of cents plus one half: on the half
\* ("up", as 0.06 / 4 gives 1.5) or just below it ("down", as 0.21 / 6 gives
\* 3.4999999999999996).  Evaluated in IEEE-754 doubles, every such quotient of
\* a total below 0.21 with 1..200 installments falls on the half.
HalfCent(total) == IF total < 21 THEN {"up"} ELSE {"up", "down"}

\* Math.round((total / n) * 100) / 100, in cents, for n > 0 (Math.round takes
\* a half upwards)
RoundedShareFloor(total, n, half) == total \div n

RoundedShare(total, n, half) ==
    IF (2 * total) % (2 * n) = n /\ half = "down"
    THEN total \div n
    ELSE (2 * total + n) \div (2 * n)

\* the due date of installment i of the installments branch
dueDateOf(zone, fd, start, i) ==
    IF fd.frequency = "daily" THEN addDays(zone, start, i)
    ELSE IF fd.frequency = "weekly" THEN addWeeks(zone, start, i)
    ELSE addDays(zone, start, i * 15)

\* the amount of installment i: the rounded share, the last one takes what
\* remains of the total after the earlier ones
amountOfEvenSplit(total, n, half, i) == RoundedShare(total, n, half)

amountOf(total, n, half, i) ==
    LET installmentAmount == RoundedShare(total, n, half)
        remainingAmount == total - (i - 1) * installmentAmount
    IN IF i = n THEN remainingAmount ELSE installmentAmount

generateInstallments(zone, rev, fd, half) ==
    LET startDate == parseStartDate(zone, rev, fd.startDate)
        totalAmount == parseFloat(fd.amountToReturn)
        numInstallments == fd.daysOrInstallments
    IN IF fd.paymentType = "single"
       THEN << [number |-> 1,
                due_date |-> formatDateLocal(zone,
                                addDays(zone, startDate, fd.daysOrInstallments)),
                amount |-> totalAmount] >>
       ELSE [i \in 1..numInstallments |->
               [number |-> i,
                due_date |-> formatDateLocal(zone, dueDateOf(zone, fd, startDate, i)),
                amount |-> IF isNaN(totalAmount) THEN NaN
                           ELSE Num(amountOf(totalAmount.v, numInstallments, half, i))]]

\* validateStep2: the error shown, or "ok"
validateStep2NoTerm(fd) ==
    LET lent == parseFloat(fd.amountLent)
        toReturn == parseFloat(fd.amountToReturn)
    IN IF isNaN(lent) \/ LeqNum(lent, Num(0)) THEN "invalid_amount_lent"
       ELSE IF isNaN(toReturn) \/ LeqNum(toReturn, Num(0)) THEN "invalid_amount_to_return"
       ELSE IF LessNum(toReturn, lent) THEN "to_return_below_lent"
       ELSE "ok"

validateStep2NoCompare(fd) ==
    LET lent == parseFloat(fd.amountLent)
        toReturn == parseFloat(fd.amountToReturn)
    IN IF isNaN(lent) \/ LeqNum(lent, Num(0)) THEN "invalid_amount_lent"
       ELSE IF isNaN(toReturn) \/ LeqNum(toReturn, Num(0)) THEN "invalid_amount_to_return"
       ELSE IF fd.daysOrInstallments <= 0 THEN "invalid_term"
       ELSE "ok"

validateStep2(fd) ==
    LET lent == parseFloat(fd.amountLent)
        toReturn == parseFloat(fd.amountToReturn)
    IN IF isNaN(lent) \/ LeqNum(lent, Num(0)) THEN "invalid_amount_lent"
       ELSE IF isNaN(toReturn) \/ LeqNum(toReturn, Num(0)) THEN "invalid_amount_to_return"
       ELSE IF LessNum(toReturn, lent) THEN "to_return_below_lent"
       ELSE IF fd.daysOrInstallments <= 0 THEN "invalid_term"
       ELSE "ok"

(***************************************************************************)
(* loanUtils: today in Lima and the display status of a loan.              *)
(***************************************************************************)
\* getTodayInLima: the Lima wall clock of the instant, printed, parsed again
\* as a wall clock of the process's own zone, and read with the local getters
getTodayInLima(zn, t) ==
    LET limaDate == UTCOfLocal(zn, LocalTime("America/Lima", t))
    IN LocalDate(zn, limaDate)

\* due_date.split('T')[0]: the text before the first 'T'
DatePortion(dueDate) == dueDate.date

\* the overdue test with the strict comparison replaced by <=
hasOverdueInstallmentsInclusive(insts, todayStr) ==
    \E installment \in insts :
        LET dueDateStr == DatePortion(installment.due_date)
            isPaid == installment.amount_paid >= installment.amount
        IN (DateStrLess(dueDateStr, todayStr) \/ dueDateStr = todayStr) /\ ~isPaid

\* the overdue test on the installments due exactly today
hasOverdueInstallmentsDueToday(insts, todayStr) ==
    \E installment \in insts :
        LET dueDateStr == DatePortion(installment.due_date)
            isPaid == installment.amount_paid >= installment.amount
        IN dueDateStr = todayStr /\ ~isPaid

\* the overdue test counting only the installments with nothing paid
hasOverdueInstallmentsUnpaidOnly(insts, todayStr) ==
    \E installment \in insts :
        LET dueDateStr == DatePortion(installment.due_date)
        IN DateStrLess(dueDateStr, todayStr) /\ installment.amount_paid <= 0

hasOverdueInstallments(insts, todayStr) ==
    \E installment \in insts :
        LET dueDateStr == DatePortion(installment.due_date)
            isPaid == installment.amount_paid >= installment.amount
        IN DateStrLess(dueDateStr, todayStr) /\ ~isPaid

\* the partial test on any installment, whatever its due date
hasPartialPaymentsAnywhere(insts, todayStr) ==
    \E installment \in insts :
        installment.amount_paid > 0 /\ installment.amount_paid < installment.amount

hasPartialPaymentsOnOverdue(insts, todayStr) ==
    \E installment \in insts :
        LET dueDateStr == DatePortion(installment.due_date)
            isOverdue == DateStrLess(dueDateStr, todayStr)
        IN /\ isOverdue
           /\ installment.amount_paid > 0
           /\ installment.amount_paid < installment.amount

\* the paid test without the comparison of the aggregates
isFullyPaidByStatusOnly(loanStatus, amountReturned, amountToReturn) ==
    loanStatus = "paid"

isFullyPaid(loanStatus, amountReturned, amountToReturn) ==
    loanStatus = "paid" \/ amountReturned >= amountToReturn

calculateLoanDisplayStatus(zn, t, loanStatus, insts, amountReturned, amountToReturn) ==
    IF isFullyPaid(loanStatus, amountReturned, amountToReturn) THEN "paid"
    ELSE LET todayStr == getTodayInLima(zn, t)
         IN IF hasOverdueInstallments(insts, todayStr) THEN "overdue"
            ELSE IF hasPartialPaymentsOnOverdue(insts, todayStr) THEN "partial"
            ELSE "on_time"

(***************************************************************************)
(* LoanDetail (Auth.tsx): today in Lima, the display status of an          *)
(* installment, and the pure parts of handlePayment.                       *)
(***************************************************************************)
\* today as the date at UTC
LoanDetail_getTodayAtUTC(t) == LocalDate("UTC", t)

\* getTodayInLima of LoanDetail: Intl.DateTimeFormat("en-CA", {timeZone:
\* "America/Lima", ...}).format(new Date()), the date in Lima as YYYY-MM-DD
LoanDetail_getTodayInLima(t) == LocalDate("America/Lima", t)

\* the display status with the overdue test ahead of the partial test
getInstallmentDisplayStatusOverdueFirst(t, installment) ==
    LET todayStr == LoanDetail_getTodayInLima(t)
        dueDateStr == DatePortion(installment.due_date)
    IN IF installment.amount_paid >= installment.amount THEN "paid"
       ELSE IF DateStrLess(dueDateStr, todayStr) THEN "overdue"
       ELSE IF installment.amount_paid > 0 THEN "partial"
       ELSE "pending"

\* getInstallmentDisplayStatus(installment), called at the instant t
getInstallmentDisplayStatus(t, installment) ==
    LET todayStr == LoanDetail_getTodayInLima(t)
        dueDateStr == DatePortion(installment.due_date)
    IN IF installment.amount_paid >= installment.amount THEN "paid"
       ELSE IF installment.amount_paid > 0 THEN "partial"
       ELSE IF DateStrLess(dueDateStr, todayStr) THEN "overdue"
       ELSE "pending"

\* the checks of handlePayment without the one against the pending amount
validatePaymentNoMaximum(loanView, amount) ==
    IF isNaN(amount) \/ LeqNum(amount, Num(0)) THEN "invalid_amount" ELSE "ok"

\* the checks of handlePayment with the maximum only
validatePaymentMaximumOnly(loanView, amount) ==
    LET pendingAmount == loanView.amount_to_return - loanView.amount_returned
    IN IF amount.v > pendingAmount THEN "exceeds_pending" ELSE "ok"

\* the checks of handlePayment before it writes: the error shown, or "ok"
validatePayment(loanView, amount) ==
    LET pendingAmount == loanView.amount_to_return - loanView.amount_returned
    IN IF isNaN(amount) \/ LeqNum(amount, Num(0)) THEN "invalid_amount"
       ELSE IF amount.v > pendingAmount THEN "exceeds_pending"
       ELSE "ok"

Min(a, b) == IF a <= b THEN a ELSE b

\* .order("number", {ascending: true}): the rows as a sequence by number
OrderByNumber(rows) ==
    [i \in 1..Cardinality(rows) |->
        CHOOSE r \in rows : Cardinality({x \in rows : x.number < r.number}) = i - 1]

\* installments.filter(i => i.status !== "paid")
NotLabelledPaid(seq) == SelectSeq(seq, LAMBDA i : i.status # "paid")

\* an installment taking all the rest of a payment
payForInstWhole(inst, remainingPayment) == remainingPayment

\* what an installment takes of the rest of a payment
payForInst(inst, remainingPayment) ==
    LET instPending == inst.amount - inst.amount_paid
    IN Min(remainingPayment, instPending)

(***************************************************************************)
(* send-loan-report: today's date as the handler computes it in a process  *)
(* of the time zone zn.  getTimezoneOffset is UTC minus local time;        *)
(* toISOString prints the instant at UTC.                                  *)
(***************************************************************************)
getTimezoneOffset(zn, t) == t - LocalTime(zn, t)

ReportTodayStr(zn, t) ==
    LET limaOffset == -5
        limaTime == t + (limaOffset - getTimezoneOffset(zn, t))
    IN CivilFromDays(limaTime \div 24)

(***************************************************************************)
(* State.                                                                  *)
(***************************************************************************)
VARIABLES
    zone,           \* the time zone of the browser process
    revision,       \* which revision of the NewLoan page is running
    user,           \* useAuth().user: "none" or the signed-in user's id
    formData,       \* the form of the NewLoan page
    schedule,       \* what the last call of generateInstallments returned
    toast,          \* the last toast shown
    loading,        \* the loading flag of the page
    pc,             \* where handleSubmit stands
    loan,           \* handleSubmit's local: the id of the row it inserted
    route,          \* the page shown: "new" or "portfolio"
    loans,          \* table public.loans
    installments,   \* table public.installments
    now,            \* the clock: the current instant
    portfolio,      \* the Portfolio page: its loading flag and its loans
    detail,         \* the LoanDetail page: its state and its fetch in flight
    recording,      \* where handlePayment stands, and what it captured
    payments,       \* table public.payments_history
    report,         \* the last report built by send-loan-report
    dashboard       \* the Dashboard page: its loading flag and what it read

vars == <<zone, revision, user, formData, schedule, toast, loading, pc, loan,
          route, loans, installments, now, portfolio, detail, recording,
          payments, report, dashboard>>

\* the state of the NewLoan page, and the state of LoanDetail, the report and
\* the Dashboard
formVars == <<revision, formData, schedule, loading, pc, loan>>
detailVars == <<detail, recording, payments, report, dashboard>>

\* the start dates tried: before a leap day and the spring change of clocks,
\* before the autumn change of clocks, before the end of a year
StartDates == {<<2024, 2, 27>>, <<2024, 10, 25>>, <<2024, 12, 30>>}

\* the texts typed in the two amount fields
AmountLentTexts == {EmptyText, DecimalText(0), DecimalText(5)}
AmountToReturnTexts ==
    {EmptyText} \cup {DecimalText(c) : c \in 0..MaxAmount}
        \cup {DecimalText(21), DecimalText(10000)}

\* the forms a user can have filled in when the last step of the page shows
Forms ==
    [startDate : StartDates,
     amountLent : AmountLentTexts,
     amountToReturn : AmountToReturnTexts,
     paymentType : {"single", "installments"},
     frequency : {"daily", "weekly", "biweekly"},
     daysOrInstallments : 0..MaxCount]

NoSchedule == [by |-> "none", installments |-> <<>>]

\* the Portfolio page as mounted: loading, no loans yet
Mounted == [loading |-> TRUE, loans |-> {}]

\* the LoanDetail page: not open, and as mounted on the loan of the route
\* (useEffect starts fetchLoanData)
NoLoan == [id |-> 0]
NoDetail ==
    [id |-> 0, loan |-> NoLoan, installments |-> <<>>, badges |-> <<>>,
     payments |-> <<>>, loading |-> TRUE, showPaymentDialog |-> FALSE,
     savingPayment |-> FALSE, fetch |-> "idle"]
DetailMounted(id) == [NoDetail EXCEPT !.id = id, !.fetch = "loan"]

\* no handlePayment is running; failed remembers whether a write of an
\* earlier run was refused
NotRecording ==
    [pc |-> "idle", loan |-> NoLoan, todo |-> <<>>, amount |-> 0,
     remainingPayment |-> 0, failed |-> FALSE]

NoReport == [by |-> "none"]

\* the Dashboard page as mounted: loading, nothing read yet
DashboardMounted ==
    [loading |-> TRUE, loaded |-> FALSE, loans |-> {}, overdueLoans |-> {},
     overdueTotal |-> 0, upcomingInstallments |-> {}]

\* the first instant of the clock: 2024-03-10T04:00Z, an hour before midnight
\* in Lima and three hours before the clocks change in New York
ClockStart == DaysFromCivil(<<2024, 3, 10>>) * 24 + 4

Init ==
    /\ zone \in TimeZones
    /\ revision \in Revisions
    /\ user \in {"none", "u1"}
    /\ formData \in Forms
    /\ schedule = NoSchedule
    /\ toast = "none"
    /\ loading = FALSE
    /\ pc = "idle"
    /\ loan = 0
    /\ route = "new"
    /\ loans = {}
    /\ installments = {}
    /\ now = ClockStart
    /\ portfolio = Mounted
    /\ detail = NoDetail
    /\ recording = NotRecording
    /\ payments = <<>>
    /\ report = NoReport
    /\ dashboard = DashboardMounted

(***************************************************************************)
(* The schedule preview of the last step: getPaymentSummary runs on render *)
(* when daysOrInstallments > 0.                                            *)
(***************************************************************************)
GetPaymentSummary ==
    /\ route = "new"
    /\ pc = "idle"
    /\ schedule.by = "none"
    /\ formData.daysOrInstallments > 0
    /\ \E half \in HalfCent(parseFloat(formData.amountToReturn).v) :
         schedule' = [by |-> "getPaymentSummary",
                      installments |-> generateInstallments(zone, revision, formData, half)]
    /\ UNCHANGED <<zone, revision, user, formData, toast, loading, pc, loan,
                   route, loans, installments, now, portfolio>>
    /\ UNCHANGED detailVars

(***************************************************************************)
(* handleSubmit, up to the insert of the loan row.                         *)
(***************************************************************************)
\* the row handleSubmit inserts in public.loans, with the columns' defaults
LoanRow(id, fd) ==
    [id |-> id,
     user_id |-> user,
     amount_lent |-> parseFloat(fd.amountLent).v,
     amount_to_return |-> parseFloat(fd.amountToReturn).v,
     amount_returned |-> 0,
     start_date |-> fd.startDate,
     payment_type |-> fd.paymentType,
     frequency |-> IF fd.paymentType = "installments" THEN fd.frequency ELSE "null",
     status |-> "active"]

\* validation fails: the error is shown and handleSubmit returns
HandleSubmitInvalid ==
    /\ validateStep2(formData) # "ok"
    /\ toast' = validateStep2(formData)
    /\ UNCHANGED <<loading, pc, loan, loans>>

\* validation passes and nobody is signed in: handleSubmit returns
HandleSubmitNoUser ==
    /\ validateStep2(formData) = "ok"
    /\ user = "none"
    /\ UNCHANGED <<toast, loading, pc, loan, loans>>

\* the insert of the loan row fails: caught, error toast, loading reset
HandleSubmitLoanError ==
    /\ validateStep2(formData) = "ok"
    /\ user # "none"
    /\ toast' = "create_failed"
    /\ UNCHANGED <<loading, pc, loan, loans>>

\* the loan row is inserted; handleSubmit goes on to the installments
HandleSubmitLoanInserted ==
    /\ validateStep2(formData) = "ok"
    /\ user # "none"
    /\ LET id == Cardinality(loans) + 1
       IN /\ loans' = loans \cup {LoanRow(id, formData)}
          /\ loan' = id
    /\ loading' = TRUE
    /\ pc' = "installments"
    /\ UNCHANGED toast

HandleSubmit ==
    /\ route = "new"
    /\ pc = "idle"
    /\ ~loading
    /\ Cardinality(loans) < MaxLoans
    /\ \/ HandleSubmitInvalid
       \/ HandleSubmitNoUser
       \/ HandleSubmitLoanError
       \/ HandleSubmitLoanInserted
    /\ UNCHANGED <<zone, revision, user, formData, schedule, route, installments,
                   now, portfolio>>
    /\ UNCHANGED detailVars

(***************************************************************************)
(* handleSubmit, from the generation of the schedule to its end.           *)
(***************************************************************************)
\* the rows inserted in public.installments, with the columns' defaults
InstallmentRows(id, generated) ==
    {[loan_id |-> id,
      number |-> generated[i].number,
      due_date |-> [date |-> generated[i].due_date, time |-> ""],
      amount |-> generated[i].amount.v,
      amount_paid |-> 0,
      status |-> "pending"] : i \in 1..Len(generated)}

\* CHECK (amount > 0) of public.installments, on every row of the insert
InstallmentsCheck(generated) ==
    \A i \in 1..Len(generated) : LessNum(Num(0), generated[i].amount)

HandleSubmitInstallments ==
    /\ pc = "installments"
    /\ \E half \in HalfCent(parseFloat(formData.amountToReturn).v) :
         LET generated == generateInstallments(zone, revision, formData, half)
         IN /\ schedule' = [by |-> "handleSubmit", installments |-> generated]
            /\ \/ /\ InstallmentsCheck(generated)
                  /\ installments' = installments \cup InstallmentRows(loan, generated)
                  /\ toast' = "created"
                  /\ route' = "portfolio"
                  /\ portfolio' = Mounted
               \/ /\ toast' = "create_failed"
                  /\ UNCHANGED <<installments, route, portfolio>>
    /\ loading' = FALSE
    /\ pc' = "idle"
    /\ UNCHANGED <<zone, revision, user, formData, loan, loans, now>>
    /\ UNCHANGED detailVars

(***************************************************************************)
(* The Portfolio page.  fetchLoans runs once per mount, for a signed-in    *)
(* user: it reads the user's loans and their installments and computes     *)
(* each loan's display status.                                             *)
(***************************************************************************)
fetchLoans ==
    /\ route = "portfolio"
    /\ user # "none"
    /\ portfolio.loading
    /\ portfolio' =
         [loading |-> FALSE,
          loans |->
            {[loan |-> l,
              installments |-> {i \in installments : i.loan_id = l.id},
              displayStatus |->
                 calculateLoanDisplayStatus(zone, now, l.status,
                     {i \in installments : i.loan_id = l.id},
                     l.amount_returned, l.amount_to_return)]
               : l \in {x \in loans : x.user_id = user}}]
    /\ UNCHANGED <<zone, revision, user, formData, schedule, toast, loading, pc,
                   loan, route, loans, installments, now>>
    /\ UNCHANGED detailVars

\* the page is left and opened again
OpenPortfolio ==
    /\ route = "portfolio"
    /\ ~portfolio.loading
    /\ portfolio' = Mounted
    /\ UNCHANGED <<zone, revision, user, formData, schedule, toast, loading, pc,
                   loan, route, loans, installments, now>>
    /\ UNCHANGED detailVars

\* an hour passes
Tick ==
    /\ now < ClockStart + MaxTicks
    /\ now' = now + 1
    /\ UNCHANGED <<zone, revision, user, formData, schedule, toast, loading, pc,
                   loan, route, loans, installments, portfolio>>
    /\ UNCHANGED detailVars

Next ==
    \/ GetPaymentSummary
    \/ HandleSubmit
    \/ HandleSubmitInstallments
    \/ fetchLoans

Spec == Init /\ [][Next]_vars

(***************************************************************************)
(* The status resolver on stored loans of every kind: one loan of daily    *)
(* installments of 2.00 each, with any payments, any stored labels and     *)
(* aggregates that need not agree with the installments.                   *)
(***************************************************************************)
StatusStartDates == {<<2023, 12, 30>>, <<2024, 3, 8>>, <<2024, 3, 9>>}
TimeParts == {"", "T00:00:00"}
StoredLabels == {"pending", "paid"}

StoredLoan(startDate, status, returned) ==
    [id |-> 1,
     user_id |-> "u1",
     amount_lent |-> 4,
     amount_to_return |-> 4,
     amount_returned |-> returned,
     start_date |-> startDate,
     payment_type |-> "installments",
     frequency |-> "daily",
     status |-> status]

StoredInstallment(startDate, timePart, i, paid, label) ==
    [loan_id |-> 1,
     number |-> i,
     due_date |-> [date |-> CivilFromDays(DaysFromCivil(startDate) + i),
                   time |-> timePart],
     amount |-> 2,
     amount_paid |-> paid,
     status |-> label]

InitStatus ==
    /\ zone \in TimeZones
    /\ revision = "part_002"
    /\ user = "u1"
    /\ formData = CHOOSE fd \in Forms : TRUE
    /\ schedule = NoSchedule
    /\ toast = "none"
    /\ loading = FALSE
    /\ pc = "idle"
    /\ loan = 0
    /\ route = "portfolio"
    /\ \E startDate \in StatusStartDates, timePart \in TimeParts :
         /\ \E status \in {"active", "paid"}, returned \in {0, 2, 4} :
              loans = {StoredLoan(startDate, status, returned)}
         /\ \E k \in 0..MaxInstallments :
              \E paid \in [1..k -> 0..MaxPaid], label \in [1..k -> StoredLabels] :
                 installments =
                    {StoredInstallment(startDate, timePart, i, paid[i], label[i])
                       : i \in 1..k}
    /\ now = ClockStart
    /\ portfolio = Mounted
    /\ detail = NoDetail
    /\ recording = NotRecording
    /\ payments = <<>>
    /\ report = NoReport
    /\ dashboard = DashboardMounted

NextStatus ==
    \/ fetchLoans
    \/ OpenPortfolio
    \/ Tick

SpecStatus == InitStatus /\ [][NextStatus]_vars

(***************************************************************************)
(* The LoanDetail page.  fetchLoanData reads the loan, its installments    *)
(* and its payments in three requests; the page keeps what it has until    *)
(* each answer arrives.  The updates of a page that has been left are      *)
(* dropped.                                                                *)
(***************************************************************************)
LoanRowsOf(id) == {l \in loans : l.id = id}
InstallmentRowsOf(id) == {i \in installments : i.loan_id = id}
PaymentRowsOf(id) == SelectSeq(payments, LAMBDA p : p.loan_id = id)

\* catch of fetchLoanData, then finally
fetchLoanDataError ==
    /\ toast' = "load_failed"
    /\ detail' = [detail EXCEPT !.fetch = "idle", !.loading = FALSE]
    /\ UNCHANGED <<route, portfolio>>

fetchLoanData_loan ==
    /\ route = "detail"
    /\ detail.fetch = "loan"
    /\ \/ fetchLoanDataError
       \/ /\ LoanRowsOf(detail.id) = {}
          /\ route' = "portfolio"
          /\ portfolio' = Mounted
          /\ detail' = [detail EXCEPT !.fetch = "idle", !.loading = FALSE]
          /\ UNCHANGED toast
       \/ /\ \E loanData \in LoanRowsOf(detail.id) :
                detail' = [detail EXCEPT !.loan = loanData, !.fetch = "installments"]
          /\ UNCHANGED <<toast, route, portfolio>>
    /\ UNCHANGED <<zone, user, formVars, loans, installments, now, recording,
                   payments, report>>
    /\ UNCHANGED dashboard

\* setInstallments: the page renders the installments with their statuses
fetchLoanData_installments ==
    /\ route = "detail"
    /\ detail.fetch = "installments"
    /\ \/ fetchLoanDataError
       \/ /\ LET installmentsData == OrderByNumber(InstallmentRowsOf(detail.id))
             IN detail' =
                  [detail EXCEPT
                     !.installments = installmentsData,
                     !.badges = [i \in DOMAIN installmentsData |->
                                   getInstallmentDisplayStatus(now, installmentsData[i])],
                     !.fetch = "payments"]
          /\ UNCHANGED <<toast, route, portfolio>>
    /\ UNCHANGED <<zone, user, formVars, loans, installments, now, recording,
                   payments, report>>
    /\ UNCHANGED dashboard

fetchLoanData_payments ==
    /\ route = "detail"
    /\ detail.fetch = "payments"
    /\ \/ fetchLoanDataError
       \/ /\ detail' = [detail EXCEPT !.payments = PaymentRowsOf(detail.id),
                                      !.fetch = "idle", !.loading = FALSE]
          /\ UNCHANGED <<toast, route, portfolio>>
    /\ UNCHANGED <<zone, user, formVars, loans, installments, now, recording,
                   payments, report>>
    /\ UNCHANGED dashboard

\* the button "Registrar Pago", shown while the loan of the page is not paid
OpenPaymentDialog ==
    /\ route = "detail"
    /\ ~detail.loading
    /\ detail.loan # NoLoan
    /\ detail.loan.status # "paid"
    /\ ~detail.showPaymentDialog
    /\ detail' = [detail EXCEPT !.showPaymentDialog = TRUE]
    /\ UNCHANGED <<zone, user, formVars, toast, route, loans, installments, now,
                   portfolio, recording, payments, report>>
    /\ UNCHANGED dashboard

\* the installments left by the delete of a loan row if nothing cascaded
InstallmentsAfterDeleteKept(id) == installments

\* ON DELETE CASCADE of installments.loan_id and of payments_history.loan_id:
\* the rows left by the delete of the loan row id
InstallmentsAfterDelete(id) == {i \in installments : i.loan_id # id}
PaymentsAfterDelete(id) == SelectSeq(payments, LAMBDA p : p.loan_id # id)

\* handleDelete: the loan row is deleted, and with it (ON DELETE CASCADE) its
\* installments and its payments; or the delete fails
handleDelete ==
    /\ route = "detail"
    /\ ~detail.loading
    /\ detail.loan # NoLoan
    /\ \/ /\ loans' = {l \in loans : l.id # detail.loan.id}
          /\ installments' = InstallmentsAfterDelete(detail.loan.id)
          /\ payments' = PaymentsAfterDelete(detail.loan.id)
          /\ toast' = "deleted"
          /\ route' = "portfolio"
          /\ portfolio' = Mounted
       \/ /\ toast' = "delete_failed"
          /\ UNCHANGED <<loans, installments, payments, route, portfolio>>
    /\ UNCHANGED <<zone, user, formVars, now, detail, recording, report>>
    /\ UNCHANGED dashboard

(***************************************************************************)
(* handlePayment.  It works on the loan and the installments of the render *)
(* it was called from, and writes in turn the payment row, the loan row    *)
(* and one installment row after the other, each in a request of its own.  *)
(***************************************************************************)
\* the amounts typed in the dialog
PaymentTexts ==
    {EmptyText} \cup {DecimalText(c) : c \in 0..(2 * MaxInstallments + 1)}

\* the call: the checks, then setSavingPayment(true) and the first request
handlePayment ==
    /\ route = "detail"
    /\ detail.loan # NoLoan
    /\ detail.showPaymentDialog
    /\ ~detail.savingPayment
    /\ recording.pc = "idle"
    /\ Len(payments) < MaxPayments
    /\ \E paymentAmount \in PaymentTexts :
         LET amount == parseFloat(paymentAmount)
         IN IF validatePayment(detail.loan, amount) # "ok"
            THEN /\ toast' = validatePayment(detail.loan, amount)
                 /\ UNCHANGED <<detail, recording>>
            ELSE /\ detail' = [detail EXCEPT !.savingPayment = TRUE]
                 /\ recording' =
                      [recording EXCEPT
                         !.pc = "payment",
                         !.loan = detail.loan,
                         !.todo = NotLabelledPaid(detail.installments),
                         !.amount = amount.v,
                         !.remainingPayment = amount.v]
                 /\ UNCHANGED toast
    /\ UNCHANGED <<zone, user, formVars, route, loans, installments, now,
                   portfolio, payments, report>>
    /\ UNCHANGED dashboard

\* catch, then finally: the error toast, setSavingPayment(false)
handlePaymentError ==
    /\ toast' = "payment_failed"
    /\ detail' = [detail EXCEPT !.savingPayment = FALSE]
    /\ recording' = [NotRecording EXCEPT !.failed = TRUE]

\* the end of the try block, then finally: the toast, the dialog closed,
\* fetchLoanData started, setSavingPayment(false)
handlePaymentDone(failed) ==
    /\ toast' = "payment_recorded"
    /\ detail' = [detail EXCEPT !.showPaymentDialog = FALSE,
                                !.savingPayment = FALSE,
                                !.fetch = "loan"]
    /\ recording' = [NotRecording EXCEPT !.failed = failed]

\* the head of the loop over the installments not labelled paid
handlePaymentLoop(todo, remainingPayment, failed) ==
    IF todo = <<>> \/ remainingPayment <= 0
    THEN handlePaymentDone(failed)
    ELSE /\ recording' = [recording EXCEPT !.pc = "installments",
                                           !.todo = todo,
                                           !.remainingPayment = remainingPayment,
                                           !.failed = failed]
         /\ UNCHANGED <<toast, detail>>

\* the insert in payments_history: refused when the loan is gone (foreign
\* key) or for a reason of its own
handlePayment_insert ==
    /\ recording.pc = "payment"
    /\ \/ /\ LoanRowsOf(recording.loan.id) # {}
          /\ payments' = Append(payments, [loan_id |-> recording.loan.id,
                                           amount_paid |-> recording.amount])
          /\ recording' = [recording EXCEPT !.pc = "loan"]
          /\ UNCHANGED <<toast, detail>>
       \/ /\ handlePaymentError
          /\ UNCHANGED payments
    /\ UNCHANGED <<zone, user, formVars, route, loans, installments, now,
                   portfolio, report>>
    /\ UNCHANGED dashboard

\* the update of the loan row, then the loop up to its first request
handlePayment_loan ==
    /\ recording.pc = "loan"
    /\ \/ /\ LET newAmountReturned == recording.loan.amount_returned + recording.amount
                 newStatus == IF newAmountReturned >= recording.loan.amount_to_return
                              THEN "paid" ELSE "partial"
             IN loans' = {IF l.id = recording.loan.id
                          THEN [l EXCEPT !.amount_returned = newAmountReturned,
                                         !.status = newStatus]
                          ELSE l : l \in loans}
          /\ handlePaymentLoop(recording.todo, recording.remainingPayment,
                               recording.failed)
       \/ /\ handlePaymentError
          /\ UNCHANGED loans
    /\ UNCHANGED <<zone, user, formVars, route, installments, now, portfolio,
                   payments, report>>
    /\ UNCHANGED dashboard

\* one turn of the loop: the update of an installment row, whose outcome is
\* not looked at, then the loop up to its next request
handlePayment_installment ==
    /\ recording.pc = "installments"
    /\ LET inst == Head(recording.todo)
           paid == payForInst(inst, recording.remainingPayment)
           newInstPaid == inst.amount_paid + paid
           newInstStatus == IF newInstPaid >= inst.amount THEN "paid" ELSE "partial"
       IN \/ /\ installments' =
                  {IF i.loan_id = inst.loan_id /\ i.number = inst.number
                   THEN [i EXCEPT !.amount_paid = newInstPaid,
                                  !.status = newInstStatus]
                   ELSE i : i \in installments}
             /\ handlePaymentLoop(Tail(recording.todo),
                                  recording.remainingPayment - paid,
                                  recording.failed)
          \/ /\ UNCHANGED installments
             /\ handlePaymentLoop(Tail(recording.todo),
                                  recording.remainingPayment - paid, TRUE)
    /\ UNCHANGED <<zone, user, formVars, route, loans, now, portfolio, payments,
                   report>>
    /\ UNCHANGED dashboard

(***************************************************************************)
(* Payments on a loan as handleSubmit stores it: installments of 2.00 due  *)
(* day after day, nothing paid, the LoanDetail page just opened on it.     *)
(* The first installment was due yesterday (2024-03-08), the second is due *)
(* today.                                                                  *)
(***************************************************************************)
PaymentStartDate == <<2024, 3, 7>>

InitPayments ==
    /\ zone = "America/Lima"
    /\ revision = "part_002"
    /\ user = "u1"
    /\ formData = CHOOSE fd \in Forms : TRUE
    /\ schedule = NoSchedule
    /\ toast = "none"
    /\ loading = FALSE
    /\ pc = "idle"
    /\ loan = 0
    /\ route = "detail"
    /\ \E k \in 1..MaxInstallments :
         /\ loans = {[StoredLoan(PaymentStartDate, "active", 0)
                        EXCEPT !.amount_lent = 2 * k, !.amount_to_return = 2 * k]}
         /\ installments =
               {StoredInstallment(PaymentStartDate, "", i, 0, "pending") : i \in 1..k}
    /\ now = ClockStart
    /\ portfolio = Mounted
    /\ detail = DetailMounted(1)
    /\ recording = NotRecording
    /\ payments = <<>>
    /\ report = NoReport
    /\ dashboard = DashboardMounted

NextPayments ==
    \/ fetchLoanData_loan
    \/ fetchLoanData_installments
    \/ fetchLoanData_payments
    \/ OpenPaymentDialog
    \/ handlePayment
    \/ handlePayment_insert
    \/ handlePayment_loan
    \/ handlePayment_installment
    \/ handleDelete

SpecPayments == InitPayments /\ [][NextPayments]_vars

(***************************************************************************)
(* send-loan-report.  The handler runs for the signed-in user in a process *)
(* of some time zone: it computes today's date, reads the user's loans     *)
(* stored as active or partial and their installments stored as pending or *)
(* partial, and marks the installments it lists as overdue.                *)
(***************************************************************************)
sendLoanReport ==
    /\ user # "none"
    /\ \E zn \in TimeZones :
         LET todayStr == ReportTodayStr(zn, now)
             reported == {l \in loans : l.user_id = user
                                          /\ l.status \in {"active", "partial"}}
             pendingInstallments ==
                {i \in installments :
                    /\ \E l \in reported : l.id = i.loan_id
                    /\ i.status \in {"pending", "partial"}}
         IN report' =
              [by |-> "handler",
               zone |-> zn,
               now |-> now,
               todayStr |-> todayStr,
               loans |-> {l.id : l \in reported},
               isOverdue |->
                  {<<i.loan_id, i.number>> : i \in
                     {x \in pendingInstallments :
                         DateStrLess(x.due_date.date, todayStr) /\ x.status # "paid"}}]
    /\ UNCHANGED <<zone, user, formVars, toast, route, loans, installments, now,
                   portfolio, detail, recording, payments>>
    /\ UNCHANGED dashboard

(***************************************************************************)
(* The Dashboard page, open in a tab of its own.  fetchDashboardData runs  *)
(* once per mount for a signed-in user: it reads the user's loans, keeps   *)
(* those stored as overdue, and reads the installments stored as pending   *)
(* or partial (the first 20 by due date; fewer are stored here).           *)
(***************************************************************************)
RECURSIVE SumPending(_)
SumPending(rows) ==
    IF rows = {} THEN 0
    ELSE LET l == CHOOSE x \in rows : TRUE
         IN (l.amount_to_return - l.amount_returned) + SumPending(rows \ {l})

fetchDashboardData ==
    /\ user # "none"
    /\ dashboard.loading
    /\ \/ dashboard' = [dashboard EXCEPT !.loading = FALSE]
       \/ LET loansData == {l \in loans : l.user_id = user}
              overdue == {l \in loansData : l.status = "overdue"}
              installmentsData ==
                 {i \in installments :
                     /\ \E l \in loansData : l.id = i.loan_id
                     /\ i.status \in {"pending", "partial"}}
          IN dashboard' =
               [loading |-> FALSE,
                loaded |-> TRUE,
                loans |-> loansData,
                overdueLoans |-> overdue,
                overdueTotal |-> SumPending(overdue),
                upcomingInstallments |-> installmentsData]
    /\ UNCHANGED <<zone, user, formVars, toast, route, loans, installments, now,
                   portfolio, detail, recording, payments, report>>

\* the Dashboard is left and opened again
OpenDashboard ==
    /\ ~dashboard.loading
    /\ dashboard' = DashboardMounted
    /\ UNCHANGED <<zone, user, formVars, toast, route, loans, installments, now,
                   portfolio, detail, recording, payments, report>>

\* one stored loan, nothing paid, its first installment due 2024-03-09
InitToday ==
    /\ zone \in TimeZones
    /\ revision = "part_002"
    /\ user = "u1"
    /\ formData = CHOOSE fd \in Forms : TRUE
    /\ schedule = NoSchedule
    /\ toast = "none"
    /\ loading = FALSE
    /\ pc = "idle"
    /\ loan = 0
    /\ route = "portfolio"
    /\ loans = {StoredLoan(<<2024, 3, 8>>, "active", 0)}
    /\ installments =
          {StoredInstallment(<<2024, 3, 8>>, "", i, 0, "pending")
             : i \in 1..MaxInstallments}
    /\ now = ClockStart
    /\ portfolio = Mounted
    /\ detail = NoDetail
    /\ recording = NotRecording
    /\ payments = <<>>
    /\ report = NoReport
    /\ dashboard = DashboardMounted

NextToday ==
    \/ sendLoanReport
    \/ fetchDashboardData
    \/ OpenDashboard
    \/ fetchLoans
    \/ OpenPortfolio
    \/ Tick

SpecToday == InitToday /\ [][NextToday]_vars


(***************************************************************************)
(* Properties of the schedule generator.                                   *)
(***************************************************************************)
ToReturn == parseFloat(formData.amountToReturn)
Generated == schedule.installments
Generating == schedule.by # "none"
InstallmentsMode == formData.paymentType = "installments"
Count == formData.daysOrInstallments

\* the sum of the amounts of the first k installments of a schedule
RECURSIVE SumAmounts(_, _)
SumAmounts(seq, k) == IF k = 0 THEN 0 ELSE seq[k].amount.v + SumAmounts(seq, k - 1)

\* the stored installments of a loan row
RowsOf(l) == {r \in installments : r.loan_id = l.id}

RECURSIVE SumRows(_)
SumRows(rows) ==
    IF rows = {} THEN 0
    ELSE LET r == CHOOSE x \in rows : TRUE IN r.amount + SumRows(rows \ {r})

Abs(x) == IF x < 0 THEN -x ELSE x

\* the days between two installments of a cadence
StepDays(frequency) ==
    IF frequency = "daily" THEN 1 ELSE IF frequency = "weekly" THEN 7 ELSE 15

\* C1: for a loan in installments mode with amountToReturn > 0 in whole cents
\* and count >= 1, the amounts returned by generateInstallments sum to
\* amountToReturn to the cent, and so do the rows stored for the loan.
C1_SumIsAmountToReturn ==
    /\ (Generating /\ InstallmentsMode /\ LessNum(Num(0), ToReturn) /\ Count >= 1)
          => SumAmounts(Generated, Len(Generated)) = ToReturn.v
    /\ \A l \in loans :
          (l.payment_type = "installments" /\ RowsOf(l) # {})
             => SumRows(RowsOf(l)) = l.amount_to_return

\* a schedule of three or more installments whose last amount differs from
\* the first: the rounded shares leave a residual
C1_Witness ==
    /\ Generating /\ InstallmentsMode /\ LessNum(Num(0), ToReturn) /\ Count >= 3
    /\ Generated[Count].amount # Generated[1].amount
    /\ Generated[Count].amount.v > 0

\* C2: every installment of a schedule generated in installments mode for
\* amountToReturn > 0 and a count in 1..200 has an amount > 0, the last one
\* included.
C2_AmountsPositive ==
    (Generating /\ InstallmentsMode /\ LessNum(Num(0), ToReturn)
       /\ Count >= 1 /\ Count <= 200)
      => \A i \in 1..Len(Generated) : Generated[i].amount.v > 0

\* C3: in installments mode the installments 1..count-1 each have the amount
\* amountToReturn / count rounded to the nearest cent, the last one has
\* amountToReturn minus the sum of the earlier ones, and 100.00 in 3
\* installments is 33.33, 33.33, 33.34.
C3_SharesAndResidual ==
    (Generating /\ InstallmentsMode /\ ~isNaN(ToReturn) /\ Count >= 1)
      => /\ Len(Generated) = Count
         /\ \A i \in 1..(Count - 1) :
               /\ 2 * Abs(Count * Generated[i].amount.v - ToReturn.v) <= Count
               /\ Generated[i].amount = Generated[1].amount
         /\ Generated[Count].amount.v = ToReturn.v - SumAmounts(Generated, Count - 1)
         /\ (ToReturn.v = 10000 /\ Count = 3)
               => /\ Generated[1].amount.v = 3333
                  /\ Generated[2].amount.v = 3333
                  /\ Generated[3].amount.v = 3334

\* the schedule of 100.00 in 3 installments has been generated
C3_Witness ==
    /\ Generating /\ InstallmentsMode /\ ToReturn = Num(10000) /\ Count = 3
    /\ Generated[3].amount.v = 3334

\* C4: in installments mode generateInstallments returns count installments
\* numbered 1..count in order, installment i due i days (daily), 7 * i days
\* (weekly) or 15 * i days (biweekly) after the start date.
C4_NumberedAndDue ==
    (Generating /\ InstallmentsMode /\ LessNum(Num(0), ToReturn) /\ Count >= 1)
      => /\ Len(Generated) = Count
         /\ \A i \in 1..Len(Generated) :
               /\ Generated[i].number = i
               /\ Generated[i].due_date =
                     CivilFromDays(DaysFromCivil(formData.startDate)
                                     + i * StepDays(formData.frequency))

\* C5: in every generated schedule the due dates increase strictly with the
\* installment number and every due date is strictly after the start date.
C5_DueDatesIncrease ==
    (Generating /\ LessNum(Num(0), ToReturn))
      => \A i \in 1..Len(Generated) :
            /\ DateStrLess(formData.startDate, Generated[i].due_date)
            /\ i > 1 => DateStrLess(Generated[i - 1].due_date, Generated[i].due_date)

\* C6: for the same terms the numbers, due dates and amounts returned by
\* generateInstallments are the same in every time zone of the process.
C6_SameInEveryZone ==
    (Generating /\ LessNum(Num(0), ToReturn))
      => \A z \in TimeZones :
            \E half \in HalfCent(ToReturn.v) :
               generateInstallments(z, revision, formData, half) = Generated

(***************************************************************************)
(* Properties of the submission.                                           *)
(***************************************************************************)
ValidationErrors ==
    {"invalid_amount_lent", "invalid_amount_to_return", "to_return_below_lent",
     "invalid_term"}

\* count <= 0 or amount_to_return <= 0 (the cadence of the form is always one
\* of daily, weekly, biweekly)
RefusedTerms ==
    \/ Count <= 0
    \/ LeqNum(ToReturn, Num(0))
    \/ formData.frequency \notin {"daily", "weekly", "biweekly"}

FailsValidation ==
    LET lent == parseFloat(formData.amountLent)
    IN \/ isNaN(lent) \/ LeqNum(lent, Num(0))
       \/ isNaN(ToReturn) \/ LeqNum(ToReturn, Num(0))
       \/ LessNum(ToReturn, lent)
       \/ Count <= 0

\* C8: when validation fails at submit time or no user is signed in, no step
\* of the page inserts a loan row or an installment row.
C8_NoInsertWhenInvalid ==
    [][(route = "new" /\ pc = "idle" /\ (FailsValidation \/ user = "none"))
         => (loans' = loans /\ installments' = installments /\ pc' = "idle")]_vars

\* handleSubmit has returned on an amount to return below the amount lent
C8_Witness ==
    /\ toast = "to_return_below_lent"
    /\ FailsValidation
    /\ loans = {}
    /\ installments = {}


(***************************************************************************)
(* Properties of the status resolver.                                      *)
(***************************************************************************)
\* the calendar date at UTC-5 of an instant
LimaDateOf(t) == CivilFromDays((t - 5) \div 24)

\* the loan of a Portfolio entry is settled: stored as paid, or returned in full
Settled(e) ==
    e.loan.status = "paid" \/ e.loan.amount_returned >= e.loan.amount_to_return

\* the installments of a Portfolio entry that are past due at the date today
\* and not paid in full
PastDueUnpaid(e, today) ==
    {i \in e.installments :
        DateStrLess(i.due_date.date, today) /\ i.amount_paid < i.amount}

\* C9: calculateLoanDisplayStatus returns 'paid' whenever the stored status is
\* 'paid' or amountReturned >= amountToReturn, whatever the installments and
\* whatever the date.
C9_SettledIsPaid ==
    \A e \in portfolio.loans : Settled(e) => e.displayStatus = "paid"

\* a loan stored as active, returned in full by its aggregate, shown as paid
\* although an installment of it is unpaid and was due in 2023
C9_Witness ==
    \E e \in portfolio.loans :
        /\ e.displayStatus = "paid"
        /\ e.loan.status = "active"
        /\ e.loan.amount_returned >= e.loan.amount_to_return
        /\ \E i \in e.installments : i.amount_paid = 0 /\ i.due_date.date[1] = 2023

\* C10: for a loan not resolved as paid, calculateLoanDisplayStatus returns
\* 'overdue' if and only if some installment is due strictly before today (the
\* date in Lima) with amount_paid < amount, whatever the other installments
\* and whatever the labels stored on the installments.
C10_OverdueIffPastDueUnpaid ==
    [][fetchLoans =>
         \A e \in portfolio'.loans :
            ~Settled(e) =>
               (e.displayStatus = "overdue" <=> PastDueUnpaid(e, LimaDateOf(now)) # {})]_vars

\* a loan shown as overdue for one installment past due, unpaid and labelled
\* paid, while its other installment is paid in full
C10_Witness ==
    \E e \in portfolio.loans :
        /\ e.displayStatus = "overdue"
        /\ ~Settled(e)
        /\ \E i, j \in e.installments :
              /\ i.due_date.date[1] = 2023 /\ i.amount_paid < i.amount
              /\ i.status = "paid"
              /\ j.amount_paid >= j.amount

\* the installments of a Portfolio entry that are not paid in full
NotFullyPaid(e) == {i \in e.installments : i.amount_paid < i.amount}

\* C11: a loan not resolved as paid whose installments not paid in full are
\* all due today (the date in Lima) or later is 'on_time': an installment due
\* exactly today, with or without a time after its date, does not make the
\* loan overdue, and partial payments on such installments change nothing.
C11_OnTimeWhenNothingPastDue ==
    [][fetchLoans =>
         \A e \in portfolio'.loans :
            (/\ ~Settled(e)
             /\ \A i \in NotFullyPaid(e) :
                   ~DateStrLess(i.due_date.date, LimaDateOf(now)))
               => e.displayStatus = "on_time"]_vars

\* a loan shown as on_time whose first installment, due 2024-03-09T00:00:00,
\* is unpaid (today is no earlier than 2024-03-09 in Lima), whose second
\* installment is partially paid, fetched in a process away from Lima
C11_Witness ==
    \E e \in portfolio.loans :
        /\ e.displayStatus = "on_time"
        /\ ~Settled(e)
        /\ zone # "America/Lima"
        /\ \E i, j \in e.installments :
              /\ i.due_date = [date |-> <<2024, 3, 9>>, time |-> "T00:00:00"]
              /\ i.amount_paid = 0
              /\ j.due_date.date = <<2024, 3, 10>>
              /\ j.amount_paid > 0 /\ j.amount_paid < j.amount

(***************************************************************************)
(* Properties of the installment status and of today's date.               *)
(***************************************************************************)
\* C13: getInstallmentDisplayStatus decides in this order, first match wins:
\* amount_paid >= amount is 'paid', else amount_paid > 0 is 'partial', else a
\* due date before today (the date in Lima) is 'overdue', else 'pending'; a
\* partially paid installment past its due date is 'partial'.
C13_InstallmentStatusOrder ==
    [][(fetchLoanData_installments /\ detail'.fetch = "payments") =>
         \A n \in DOMAIN detail'.installments :
            LET inst == detail'.installments[n]
                status == detail'.badges[n]
                pastDue == DateStrLess(inst.due_date.date, LimaDateOf(now))
            IN /\ inst.amount_paid >= inst.amount => status = "paid"
               /\ (inst.amount_paid < inst.amount /\ inst.amount_paid > 0)
                     => status = "partial"
               /\ (inst.amount_paid <= 0 /\ inst.amount > 0 /\ pastDue)
                     => status = "overdue"
               /\ (inst.amount_paid <= 0 /\ inst.amount > 0 /\ ~pastDue)
                     => status = "pending"]_vars

\* the page shows a partially paid installment past its due date as partial,
\* next to an unpaid one not yet past due shown as pending
C13_Witness ==
    \E n, m \in DOMAIN detail.installments :
        /\ DOMAIN detail.badges = DOMAIN detail.installments
        /\ detail.badges[n] = "partial"
        /\ DateStrLess(detail.installments[n].due_date.date, LimaDateOf(now))
        /\ detail.installments[n].amount_paid = 1
        /\ detail.badges[m] = "pending"

\* C14: the result of calculateLoanDisplayStatus depends on its arguments
\* only: the status the Portfolio page got for a loan is the status a call
\* with the same arguments returns at any later moment.
C14_SameArgumentsSameResult ==
    \A e \in portfolio.loans :
        e.displayStatus =
           calculateLoanDisplayStatus(zone, now, e.loan.status, e.installments,
                                      e.loan.amount_returned, e.loan.amount_to_return)

\* C15: every computation of today's date (getTodayInLima of loanUtils,
\* getTodayInLima of LoanDetail, todayStr of send-loan-report) gives the
\* calendar date at UTC-5 of the instant it runs at, in a process of any
\* time zone.
C15_TodayIsLimaDate ==
    /\ getTodayInLima(zone, now) = LimaDateOf(now)
    /\ LoanDetail_getTodayInLima(now) = LimaDateOf(now)
    /\ report.by = "handler" => report.todayStr = LimaDateOf(report.now)

(***************************************************************************)
(* Properties of the recording of payments.                                *)
(***************************************************************************)
RECURSIVE SumPaid(_)
SumPaid(rows) ==
    IF rows = {} THEN 0
    ELSE LET r == CHOOSE x \in rows : TRUE IN r.amount_paid + SumPaid(rows \ {r})

\* C16: no step lowers the stored amount_returned of a loan or the stored
\* amount_paid of an installment, also when a payment is recorded from a
\* page that has not yet reloaded the loan after an earlier payment.
C16_AmountsNeverDecrease ==
    [][/\ \A l \in loans : \A m \in loans' :
             m.id = l.id => m.amount_returned >= l.amount_returned
       /\ \A i \in installments : \A j \in installments' :
             (j.loan_id = i.loan_id /\ j.number = i.number)
                => j.amount_paid >= i.amount_paid]_vars

\* C17: the stored amount_returned of a loan never exceeds its
\* amount_to_return, whatever payments have been recorded.
C17_ReturnedAtMostToReturn ==
    \A l \in loans : l.amount_returned <= l.amount_to_return

\* two payments are stored and the loan is returned in full
C17_Witness ==
    /\ Len(payments) = 2
    /\ \E l \in loans :
          /\ l.amount_returned = l.amount_to_return
          /\ l.status = "paid"
          /\ l.amount_to_return = 4

\* C18: the recording of a payment is one transaction: every step of it
\* leaves the payment rows, the loan row and the installment rows either all
\* written or all untouched, so that no reader and no failure meets some of
\* the writes without the others.
C18_RecordingIsAtomic ==
    [][(handlePayment_insert \/ handlePayment_loan \/ handlePayment_installment)
         => \/ UNCHANGED <<payments, loans, installments>>
            \/ /\ payments' # payments
               /\ loans' # loans
               /\ installments' # installments]_vars

\* C19: whenever no recording is in progress and no write of a recording has
\* failed, the amount_returned of a loan is the sum of the amount_paid of its
\* installments.
C19_ReturnedIsSumOfPaid ==
    (recording.pc = "idle" /\ ~recording.failed)
      => \A l \in loans : l.amount_returned = SumPaid(InstallmentRowsOf(l.id))

\* C20: whenever no recording is in progress and no write of a recording has
\* failed, an installment with amount_paid > 0 has every installment of a
\* smaller number paid in full.
C20_OldestFirst ==
    (recording.pc = "idle" /\ ~recording.failed)
      => \A i, j \in installments :
            (i.loan_id = j.loan_id /\ i.number < j.number /\ j.amount_paid > 0)
               => i.amount_paid >= i.amount

(***************************************************************************)
(* Properties of the pages that show loans.                                *)
(***************************************************************************)
\* the loans of the signed-in user that calculateLoanDisplayStatus resolves as
\* overdue on the stored amounts and installments at the instant t
RecomputedOverdue(t) ==
    {l \in loans :
        /\ l.user_id = user
        /\ calculateLoanDisplayStatus(zone, t, l.status, InstallmentRowsOf(l.id),
                                      l.amount_returned, l.amount_to_return) = "overdue"}

\* C21: the overdue loans of the Dashboard, and their total, are the loans
\* for which calculateLoanDisplayStatus returns 'overdue' on the amounts, the
\* installments and the date of the moment the Dashboard reads them.
C21_DashboardOverdueIsRecomputed ==
    [][(fetchDashboardData /\ dashboard'.loaded)
         => /\ dashboard'.overdueLoans = RecomputedOverdue(now)
            /\ dashboard'.overdueTotal = SumPending(RecomputedOverdue(now))]_vars

\* C22: every stored installment and every stored payment belongs to a stored
\* loan (the delete of a loan leaves none of its rows behind), and no step
\* removes an installment of a loan that is still stored.
C22_InstallmentsGoWithTheirLoan ==
    /\ [](/\ \A i \in installments : LoanRowsOf(i.loan_id) # {}
          /\ \A n \in DOMAIN payments : LoanRowsOf(payments[n].loan_id) # {})
    /\ [][\A i \in installments :
            (\E l \in loans' : l.id = i.loan_id)
               => \E j \in installments' :
                     j.loan_id = i.loan_id /\ j.number = i.number]_vars

\* a loan whose payments the page had loaded has been deleted: no loan, no
\* installment and no payment is stored
C22_Witness ==
    /\ toast = "deleted"
    /\ detail.payments # <<>>
    /\ detail.installments # <<>>
    /\ loans = {}
    /\ installments = {}
    /\ payments = <<>>

\* C23: once handleSubmit has returned, every stored loan has its schedule:
\* at least one installment, the amounts of which sum to amount_to_return
\* (a loan row is never left without its installments).
C23_LoanHasItsSchedule ==
    pc = "idle" =>
       \A l \in loans : /\ RowsOf(l) # {}
                         /\ SumRows(RowsOf(l)) = l.amount_to_return

\* the amount of the recording in progress is a number above 0 and at most
\* what the loan it was called on has pending
RecordingAmountValid ==
    /\ recording.amount > 0
    /\ recording.amount <= recording.loan.amount_to_return - recording.loan.amount_returned

\* C24: a call of handlePayment with an amount that is not a number, is not
\* above 0 or exceeds amount_to_return - amount_returned of the loan of the
\* page writes nothing: a call either starts no recording and leaves the
\* tables alone, or starts one with a valid amount; payments, loans and
\* installments are written only by a recording in progress (or by the
\* delete of the loan), and the amount of a recording in progress is valid.
C24_RefusedPaymentWritesNothing ==
    /\ [](recording.pc # "idle" => RecordingAmountValid)
    /\ [][handlePayment =>
            /\ UNCHANGED <<payments, loans, installments>>
            /\ recording'.pc = "idle" => recording' = recording]_vars
    /\ [][(recording.pc = "idle" /\ ~handleDelete)
            => UNCHANGED <<payments, loans, installments>>]_vars

\* a payment above the pending amount of a partly paid loan was refused, and
\* the stored rows are those of the one payment recorded before
C24_Witness ==
    /\ toast = "exceeds_pending"
    /\ recording.pc = "idle"
    /\ Len(payments) = 1
    /\ \A l \in loans : l.amount_returned = payments[1].amount_paid

\* C25: calculateLoanDisplayStatus never returns 'partial': the status of
\* every loan Portfolio shows is one of paid, overdue and on_time.
C25_NeverPartial ==
    \A e \in portfolio.loans : e.displayStatus \in {"paid", "overdue", "on_time"}

\* a loan with a partial payment on an installment past due is shown overdue
C25_Witness ==
    \E e \in portfolio.loans :
        /\ e.displayStatus = "overdue"
        /\ \A i \in e.installments :
              DateStrLess(i.due_date.date, LimaDateOf(now)) =>
                 (i.amount_paid > 0 /\ i.amount_paid < i.amount)
        /\ \E i \in e.installments : DateStrLess(i.due_date.date, LimaDateOf(now))

\* C26: no payment recording stores an installment's amount_paid below 0 or
\* above the installment's amount.
C26_PaidWithinAmount ==
    \A i \in installments : i.amount_paid >= 0 /\ i.amount_paid <= i.amount

\* a payment larger than the first installment has been recorded: the first
\* installment is paid in full and the rest went to the second
C26_Witness ==
    /\ recording.pc = "idle"
    /\ toast = "payment_recorded"
    /\ \E n \in DOMAIN payments : payments[n].amount_paid > 2
    /\ \E i \in installments : i.number = 1 /\ i.amount_paid = i.amount
    /\ \E i \in installments :
          i.number = 2 /\ i.amount_paid > 0 /\ i.amount_paid < i.amount

\* C27: when no recording is in progress, a stored loan whose amount_returned
\* has reached amount_to_return has every installment paid in full.
C27_ReturnedInFullMeansAllPaid ==
    recording.pc = "idle" =>
       \A l \in loans :
          l.amount_returned >= l.amount_to_return =>
             \A i \in InstallmentRowsOf(l.id) : i.amount_paid >= i.amount

\* C28: a loan stored as 'paid' with amount_returned >= amount_to_return is
\* final: no step changes its amount_returned or its status, also when a
\* payment is recorded from a page loaded before the loan was paid.
C28_PaidIsFinal ==
    [][\A l \in loans :
          (l.status = "paid" /\ l.amount_returned >= l.amount_to_return) =>
             \A m \in loans' :
                m.id = l.id =>
                   m.amount_returned = l.amount_returned /\ m.status = "paid"]_vars

\* the installments of a Portfolio entry that getInstallmentDisplayStatus
\* shows as overdue at the instant t
ShownOverdue(e, t) ==
    {i \in e.installments : getInstallmentDisplayStatus(t, i) = "overdue"}

\* C29: at the same instant, a loan that calculateLoanDisplayStatus does not
\* resolve as 'paid' and that has an installment getInstallmentDisplayStatus
\* shows as 'overdue' is itself 'overdue'; a loan shown 'on_time' has no
\* installment shown 'overdue'.
C29_OverdueInstallmentOverdueLoan ==
    [][fetchLoans =>
         \A e \in portfolio'.loans :
            /\ (e.displayStatus # "paid" /\ ShownOverdue(e, now) # {})
                  => e.displayStatus = "overdue"
            /\ e.displayStatus = "on_time" => ShownOverdue(e, now) = {}]_vars

\* a loan shown overdue with an installment shown overdue beside an
\* installment due today that is shown pending
C29_Witness ==
    \E e \in portfolio.loans :
        /\ e.displayStatus = "overdue"
        /\ ShownOverdue(e, now) # {}
        /\ \E i \in e.installments :
              /\ i.due_date.date = LimaDateOf(now)
              /\ getInstallmentDisplayStatus(now, i) = "pending"

\* what calculateLoanDisplayStatus returns now for the loan and the
\* installments of a Portfolio entry read earlier
StatusNow(e) ==
    calculateLoanDisplayStatus(zone, now, e.loan.status, e.installments,
                               e.loan.amount_returned, e.loan.amount_to_return)

\* C30: for the same amounts and installments, the status
\* calculateLoanDisplayStatus returned at an earlier instant and the status
\* it returns now differ only as 'on_time' then 'overdue': 'overdue' stays
\* 'overdue' and 'paid' stays 'paid' as the date advances.
C30_StatusOnlyTurnsOverdue ==
    \A e \in portfolio.loans :
        /\ e.displayStatus = "overdue" => StatusNow(e) = "overdue"
        /\ e.displayStatus = "paid" => StatusNow(e) = "paid"
        /\ e.displayStatus # StatusNow(e)
              => (e.displayStatus = "on_time" /\ StatusNow(e) = "overdue")

\* a loan read as on_time before midnight in Lima is overdue after it
C30_Witness ==
    \E e \in portfolio.loans :
        /\ e.displayStatus = "on_time"
        /\ StatusNow(e) = "overdue"
        /\ \E i \in e.installments :
              /\ i.amount_paid < i.amount
              /\ CivilFromDays(DaysFromCivil(i.due_date.date) + 1) = LimaDateOf(now)

=============================================================================
